---- MODULE Spec2Model ----
(***************************************************************************)
(* Model of riva/client/auth.py: the channel factory create_channel and    *)
(* the Auth wrapper.                                                       *)
(*                                                                         *)
(* Python values are modelled as follows.                                  *)
(*   - None is the model value Null.                                       *)
(*   - A path is the sequence of its components; a leading component "~"   *)
(*     or "~name" is a home-directory reference, as pathlib treats it.     *)
(*   - A list is [tag |-> "list", items |-> seq], a tuple is               *)
(*     [tag |-> "tuple", items |-> seq]; tuple(x) changes the tag.         *)
(*   - A mutable list object lives in the heap, heap[ref] is its contents; *)
(*     two names bound to the same list hold the same ref.                 *)
(*   - A raised exception is a record [type |-> ..., ...].                 *)
(***************************************************************************)
EXTENDS Integers, Sequences, FiniteSets, TLC

\* ------------------------------------------------------------------ bounds
MaxRecords == 2      \* longest metadata list handed to a constructor
MaxOps == 2          \* caller operations on a returned list
MaxCalls == 2        \* requests issued over a channel

\* ------------------------------------------------------------- input sets
None == [none |-> TRUE]           \* Python's None
Unset == [unset |-> TRUE]         \* an attribute not assigned yet

Home == <<"root">>                \* the home directory of the current user

\* ssl_cert arguments: absolute paths, "~/..." and "~nouser/..."
CertPaths ==
    { [path |-> <<"etc", "cert.pem">>], [path |-> <<"missing.pem">>],
      [path |-> <<"~", "cert.pem">>], [path |-> <<"~nouser", "cert.pem">>] }

\* the files the paths above can denote once expanded
AbsPaths == { <<"etc", "cert.pem">>, <<"missing.pem">>, <<"root", "cert.pem">> }

Missing == [missing |-> TRUE]     \* no such file
Contents == { [bytes |-> <<1>>], [bytes |-> <<2, 3>>] }

\* file systems: /missing.pem never exists, the other two may or may not
FileSystems ==
    { f \in [AbsPaths -> Contents \cup {Missing}] : f[<<"missing.pem">>] = Missing }

Uris == { "host:443" }
MessageLengths == { 1024 }

\* raw metadata records, of 0, 1, 2 and 3 fields
MetaRecords ==
    { [tag |-> "list", items |-> <<>>],
      [tag |-> "list", items |-> <<"authorization">>],
      [tag |-> "list", items |-> <<"authorization", "token123">>],
      [tag |-> "list", items |-> <<"x-key", "abc">>],
      [tag |-> "list", items |-> <<"a", "b", "c">>] }

\* pre-built pairs, for direct callers of create_channel and for appends
Pairs ==
    { [tag |-> "tuple", items |-> <<"authorization", "token123">>],
      [tag |-> "tuple", items |-> <<"x-key", "abc">>] }

SeqsUpTo(S, n) == UNION { [1..k -> S] : k \in 0..n }

\* the one list object a construction call works on
MetaRef == [ref |-> 1]

\* ---------------------------------------------------------- pure helpers
\* 64 * 1024 * 1024, the default of max_message_length
DefaultMaxMessageLength == 64 * 1024 * 1024

\* the default of uri
DefaultUri == "localhost:50051"

\* binding of the keyword parameters: an omitted one takes its default
BindArgs(kw, metaName) ==
    [ ssl_cert |-> IF "ssl_cert" \in DOMAIN kw THEN kw["ssl_cert"] ELSE None,
      use_ssl |-> IF "use_ssl" \in DOMAIN kw THEN kw["use_ssl"] ELSE FALSE,
      uri |-> IF "uri" \in DOMAIN kw THEN kw["uri"] ELSE DefaultUri,
      metadata |-> IF metaName \in DOMAIN kw THEN kw[metaName] ELSE None,
      max_message_length |->
          IF "max_message_length" \in DOMAIN kw
          THEN kw["max_message_length"] ELSE DefaultMaxMessageLength ]

\* Path(p).expanduser(): "~" is the current user's home, an unknown user's
\* home cannot be determined (RuntimeError), anything else is left alone
ExpandUser(p) ==
    IF Len(p.path) = 0 THEN p
    ELSE IF Head(p.path) = "~" THEN [path |-> Home \o Tail(p.path)]
    ELSE IF Head(p.path) = "~nouser" THEN [type |-> "RuntimeError"]
    ELSE p

IsExc(v) == "type" \in DOMAIN v

\* tuple(meta)
ToTuple(meta) == [tag |-> "tuple", items |-> meta.items]

\* bool(x) of None or of a list value
Truthy(x) == x # None /\ Len(x.items) > 0

\* ----------------------------------------------------------- create_channel
\* Options with the send limit left at the default
Options_SendDefault(max_message_length) ==
    << <<"grpc.max_receive_message_length", max_message_length>>,
       <<"grpc.max_send_message_length", DefaultMaxMessageLength>> >>

\* the options list of every channel
Options(max_message_length) ==
    << <<"grpc.max_receive_message_length", max_message_length>>,
       <<"grpc.max_send_message_length", max_message_length>> >>

\* UsesSsl looking at the flag only
UsesSsl_FlagOnly(ssl_cert, use_ssl) == use_ssl

\* the test choosing the secure branch
UsesSsl(ssl_cert, use_ssl) == ssl_cert # None \/ use_ssl

\* RootCertificates reading the file but never assigning root_certificates
RootCertificates_Unassigned(ssl_cert, files) ==
    IF ssl_cert = None THEN [value |-> None, log |-> <<>>]
    ELSE LET p == ExpandUser(ssl_cert) IN
         IF IsExc(p) THEN [value |-> p, log |-> <<"expanduser">>]
         ELSE IF files[p.path] = Missing
              THEN [value |-> [type |-> "FileNotFoundError"],
                    log |-> <<"expanduser", "open">>]
              ELSE [value |-> None,
                    log |-> <<"expanduser", "open", "read">>]

\* RootCertificates falling back to the default roots when open fails
RootCertificates_Fallback(ssl_cert, files) ==
    IF ssl_cert = None THEN [value |-> None, log |-> <<>>]
    ELSE LET p == ExpandUser(ssl_cert) IN
         IF IsExc(p) THEN [value |-> p, log |-> <<"expanduser">>]
         ELSE IF files[p.path] = Missing
              THEN [value |-> None, log |-> <<"expanduser", "open">>]
              ELSE [value |-> files[p.path],
                    log |-> <<"expanduser", "open", "read">>]

\* root_certificates: None, or the bytes of the file at the expanded path;
\* expanduser and open may raise.  Yields the value or the exception, and
\* the steps taken.
RootCertificates(ssl_cert, files) ==
    IF ssl_cert = None THEN [value |-> None, log |-> <<>>]
    ELSE LET p == ExpandUser(ssl_cert) IN
         IF IsExc(p) THEN [value |-> p, log |-> <<"expanduser">>]
         ELSE IF files[p.path] = Missing
              THEN [value |-> [type |-> "FileNotFoundError"],
                    log |-> <<"expanduser", "open">>]
              ELSE [value |-> files[p.path],
                    log |-> <<"expanduser", "open", "read">>]

\* grpc.ssl_channel_credentials(root_certificates)
SslChannelCredentials(root_certificates) ==
    [root_certificates |-> root_certificates, call |-> None]

\* HasMetadata written as "metadata is not None"
HasMetadata_NotNone(metadata, h) == metadata # None

\* the test guarding the composition of call credentials: bool(metadata)
HasMetadata(metadata, h) == metadata # None /\ Truthy(h[metadata.ref])

\* grpc.composite_channel_credentials(creds,
\*     grpc.metadata_call_credentials(metadata_callback)); the callback is a
\* closure over the name metadata, that is over the list object it is bound to
WithCallCredentials(creds, metadata) ==
    [creds EXCEPT !.call = [callback |-> metadata]]

\* metadata_callback: what one invocation hands to callback(metadata, None)
MetadataCallback(metadata, h) ==
    [metadata |-> IF metadata = None THEN None ELSE h[metadata.ref],
     error |-> None]

\* the whole function: the channel or the exception, and the steps taken
CreateChannel(ssl_cert, use_ssl, uri, metadata, max_message_length, files, h) ==
    LET options == Options(max_message_length) IN
    IF UsesSsl(ssl_cert, use_ssl)
    THEN LET rc == RootCertificates(ssl_cert, files) IN
         IF IsExc(rc.value)
         THEN [exc |-> rc.value, channel |-> None, log |-> rc.log]
         ELSE LET tls == SslChannelCredentials(rc.value)
                  composed == HasMetadata(metadata, h)
                  creds == IF composed THEN WithCallCredentials(tls, metadata)
                           ELSE tls
              IN [exc |-> None,
                  channel |-> [kind |-> "secure", uri |-> uri,
                               creds |-> creds, options |-> options],
                  log |-> rc.log \o <<"ssl_channel_credentials">>
                          \o (IF composed
                              THEN <<"metadata_call_credentials",
                                     "composite_channel_credentials">>
                              ELSE <<>>)
                          \o <<"secure_channel">>]
    ELSE [exc |-> None,
          channel |-> [kind |-> "insecure", uri |-> uri,
                       creds |-> None, options |-> options],
          log |-> <<"insecure_channel">>]

\* ------------------------------------------------------------ Auth.__init__
\* ArityOk accepting any record of two fields or more
ArityOk_AtLeastTwo(meta) == Len(meta.items) >= 2

\* the arity test of one record
ArityOk(meta) == Len(meta.items) = 2

\* the ValueError raised for a record; its message states len(meta)
MetadataError(meta) == [type |-> "ValueError", len |-> Len(meta.items)]

\* AppendPair inserting at the front
AppendPair_Prepend(list, meta) ==
    [list EXCEPT !.items = <<ToTuple(meta)>> \o @]

\* self.metadata.append(tuple(meta))
AppendPair(list, meta) == [list EXCEPT !.items = Append(@, ToTuple(meta))]

\* the loop over metadata_args, from record i on: the list built so far or
\* the exception, and the steps taken
RECURSIVE ValidateFrom(_, _, _, _)
ValidateFrom(recs, i, list, log) ==
    IF i > Len(recs) THEN [exc |-> None, list |-> list, log |-> log]
    ELSE IF ~ArityOk(recs[i])
         THEN [exc |-> MetadataError(recs[i]), list |-> list,
               log |-> Append(log, "arity_fail")]
         ELSE ValidateFrom(recs, i + 1, AppendPair(list, recs[i]),
                           Append(log, "arity_ok"))

\* self.metadata = [] and the guarded loop
BuildMetadata(metadata_args) ==
    LET empty == [tag |-> "list", items |-> <<>>] IN
    IF Truthy(metadata_args)
    THEN ValidateFrom(metadata_args.items, 1, empty, <<>>)
    ELSE [exc |-> None, list |-> empty, log |-> <<>>]

NoSelf ==
    [ssl_cert |-> Unset, uri |-> Unset, use_ssl |-> Unset,
     metadata |-> Unset, channel |-> Unset]

\* AuthInit creating the channel before the records are validated
AuthInit_ChannelFirst(a, files) ==
    LET path == IF a.ssl_cert = None THEN None ELSE ExpandUser(a.ssl_cert)
        log0 == IF a.ssl_cert = None THEN <<>> ELSE <<"expanduser">>
    IN
    IF IsExc(path)
    THEN [exc |-> path, self |-> NoSelf, heap |-> <<>>, channel |-> None,
          log |-> log0]
    ELSE
    LET self1 == [NoSelf EXCEPT !.ssl_cert = path, !.uri = a.uri,
                                !.use_ssl = a.use_ssl, !.metadata = MetaRef]
        h0 == << [tag |-> "list", items |-> <<>>] >>
        cc == CreateChannel(self1.ssl_cert, self1.use_ssl, self1.uri,
                            self1.metadata, a.max_message_length, files, h0)
    IN
    IF cc.exc # None
    THEN [exc |-> cc.exc, self |-> self1, heap |-> h0, channel |-> None,
          log |-> log0 \o cc.log]
    ELSE
    LET md == BuildMetadata(a.metadata)
        self2 == [self1 EXCEPT !.channel = cc.channel]
    IN [exc |-> md.exc, self |-> self2, heap |-> <<md.list>>,
        channel |-> cc.channel,
        log |-> log0 \o cc.log \o <<"store_channel">> \o md.log]

\* the whole constructor: the attributes assigned, the heap, the channel
\* built, the exception if one was raised, and the steps taken
AuthInit(a, files) ==
    LET path == IF a.ssl_cert = None THEN None ELSE ExpandUser(a.ssl_cert)
        log0 == IF a.ssl_cert = None THEN <<>> ELSE <<"expanduser">>
    IN
    IF IsExc(path)
    THEN [exc |-> path, self |-> NoSelf, heap |-> <<>>, channel |-> None,
          log |-> log0]
    ELSE
    LET self1 == [NoSelf EXCEPT !.ssl_cert = path, !.uri = a.uri,
                                !.use_ssl = a.use_ssl, !.metadata = MetaRef]
        md == BuildMetadata(a.metadata)
        h == <<md.list>>
    IN
    IF md.exc # None
    THEN [exc |-> md.exc, self |-> self1, heap |-> h, channel |-> None,
          log |-> log0 \o md.log]
    ELSE
    LET cc == CreateChannel(self1.ssl_cert, self1.use_ssl, self1.uri,
                            self1.metadata, a.max_message_length, files, h)
    IN
    IF cc.exc # None
    THEN [exc |-> cc.exc, self |-> self1, heap |-> h, channel |-> None,
          log |-> log0 \o md.log \o cc.log]
    ELSE [exc |-> None, self |-> [self1 EXCEPT !.channel = cc.channel],
          heap |-> h, channel |-> cc.channel,
          log |-> log0 \o md.log \o cc.log \o <<"store_channel">>]

\* -------------------------------------------------------------------- state
VARIABLES
    files,      \* the file system: absolute path -> contents or Missing
    pc,         \* "start", "constructed" or "raised"
    call,       \* the construction call made: its function and keywords
    args,       \* its parameters after binding, lists by value
    self,       \* the attributes of the Auth object
    heap,       \* the contents of the list objects
    channel,    \* the channel grpc built, None if none
    exc,        \* the exception the construction call raised, None if none
    result,     \* what the construction call returned, None if nothing
    log,        \* the steps the construction call took, in order
    held,       \* the list references the caller holds
    got,        \* the value of the last get_auth_metadata call
    nOps,       \* caller operations done on held lists
    nCalls,     \* requests issued
    sent        \* what the call credentials attached to the last request

vars == <<files, pc, call, args, self, heap, channel, exc, result, log,
          held, got, nOps, nCalls, sent>>

\* a keyword is omitted (<<>>) or given (<<v>>)
Opt(S) == {<<>>} \cup { <<v>> : v \in S }

Keywords(c, u, x, n, metaName, m) ==
    LET all == [k \in {"ssl_cert", "use_ssl", "uri", "max_message_length",
                       metaName} |->
                  CASE k = "ssl_cert" -> c
                    [] k = "use_ssl" -> u
                    [] k = "uri" -> x
                    [] k = "max_message_length" -> n
                    [] OTHER -> m]
    IN [k \in {j \in DOMAIN all : Len(all[j]) = 1} |-> all[k][1]]

ListOf(tag, S) ==
    { [tag |-> tag, items |-> q] : q \in SeqsUpTo(S, MaxRecords) }

Init ==
    /\ files \in FileSystems
    /\ pc = "start"
    /\ call = None
    /\ args = None
    /\ self = NoSelf
    /\ heap = <<>>
    /\ channel = None
    /\ exc = None
    /\ result = None
    /\ log = <<>>
    /\ held = {}
    /\ got = None
    /\ nOps = 0
    /\ nCalls = 0
    /\ sent = None

\* Auth(ssl_cert=, use_ssl=, uri=, metadata_args=, max_message_length=)
NewAuth ==
    /\ pc = "start"
    /\ \E c \in Opt(CertPaths), u \in Opt({TRUE}), x \in Opt(Uris),
          n \in Opt(MessageLengths), m \in Opt(ListOf("list", MetaRecords)) :
          LET kw == Keywords(c, u, x, n, "metadata_args", m)
              a == BindArgs(kw, "metadata_args")
              r == AuthInit(a, files)
          IN /\ call' = [fn |-> "Auth", kw |-> kw]
             /\ args' = a
             /\ self' = r.self
             /\ heap' = r.heap
             /\ channel' = r.channel
             /\ exc' = r.exc
             /\ log' = r.log
             /\ result' = IF r.exc = None THEN [object |-> "Auth"] ELSE None
             /\ pc' = IF r.exc = None THEN "constructed" ELSE "raised"
    /\ held' = {}
    /\ UNCHANGED <<files, got, nOps, nCalls, sent>>

\* create_channel(ssl_cert=, use_ssl=, uri=, metadata=, max_message_length=),
\* called by a caller that keeps its metadata list
NewChannel ==
    /\ pc = "start"
    /\ \E c \in Opt(CertPaths), u \in Opt({TRUE}), x \in Opt(Uris),
          n \in Opt(MessageLengths), m \in Opt(ListOf("list", Pairs)) :
          LET kw == Keywords(c, u, x, n, "metadata", m)
              a == BindArgs(kw, "metadata")
              h == IF a.metadata = None THEN <<>> ELSE <<a.metadata>>
              ref == IF a.metadata = None THEN None ELSE MetaRef
              r == CreateChannel(a.ssl_cert, a.use_ssl, a.uri, ref,
                                 a.max_message_length, files, h)
          IN /\ call' = [fn |-> "create_channel", kw |-> kw]
             /\ args' = a
             /\ heap' = h
             /\ held' = IF ref = None THEN {} ELSE {ref}
             /\ channel' = r.channel
             /\ exc' = r.exc
             /\ log' = r.log
             /\ result' = r.channel
             /\ pc' = IF r.exc = None THEN "constructed" ELSE "raised"
    /\ UNCHANGED <<files, self, got, nOps, nCalls, sent>>

\* auth.get_auth_metadata(): returns self.metadata, the list object itself
GetAuthMetadataValue(obj) == obj.metadata

GetAuthMetadata ==
    /\ pc = "constructed"
    /\ call.fn = "Auth"
    /\ got' = GetAuthMetadataValue(self)
    /\ held' = held \cup {GetAuthMetadataValue(self)}
    /\ UNCHANGED <<files, pc, call, args, self, heap, channel, exc, result,
                   log, nOps, nCalls, sent>>

\* the caller appends a pair to a list it holds
CallerAppend ==
    /\ pc = "constructed"
    /\ nOps < MaxOps
    /\ \E r \in held, pair \in Pairs :
          heap' = [heap EXCEPT ![r.ref].items = Append(@, pair)]
    /\ nOps' = nOps + 1
    /\ UNCHANGED <<files, pc, call, args, self, channel, exc, result, log,
                   held, got, nCalls, sent>>

\* the caller clears a list it holds
CallerClear ==
    /\ pc = "constructed"
    /\ nOps < MaxOps
    /\ \E r \in held : heap' = [heap EXCEPT ![r.ref].items = <<>>]
    /\ nOps' = nOps + 1
    /\ UNCHANGED <<files, pc, call, args, self, channel, exc, result, log,
                   held, got, nCalls, sent>>

\* what the channel's credentials attach to one request: the outcome of the
\* metadata callback when call credentials were composed, nothing otherwise
Attached(ch, h) ==
    IF ch.creds # None /\ ch.creds.call # None
    THEN MetadataCallback(ch.creds.call.callback, h)
    ELSE None

\* a request is issued over the channel
Request ==
    /\ pc = "constructed"
    /\ nCalls < MaxCalls
    /\ sent' = Attached(channel, heap)
    /\ nCalls' = nCalls + 1
    /\ UNCHANGED <<files, pc, call, args, self, heap, channel, exc, result,
                   log, held, got, nOps>>

Next ==
    \/ NewAuth
    \/ NewChannel
    \/ GetAuthMetadata
    \/ CallerAppend
    \/ CallerClear
    \/ Request

Spec == Init /\ [][Next]_vars

\* --------------------------------------------------- vocabulary of the claims
Constructed == pc = "constructed"
Returned == pc # "start"                 \* the construction call has ended
ByAuth == Returned /\ call.fn = "Auth"

\* the raw records handed to Auth, none when metadata_args is absent
Records == IF args.metadata = None THEN <<>> ELSE args.metadata.items

BadRecords == { i \in DOMAIN Records : Len(Records[i].items) # 2 }
AllPairs == BadRecords = {}
FirstBad == CHOOSE i \in BadRecords : \A j \in BadRecords : i <= j

\* the (key, value) pairs the records stand for, in order
Pair(k, v) == [tag |-> "tuple", items |-> <<k, v>>]
RecordsAsPairs ==
    [tag |-> "list",
     items |-> [i \in DOMAIN Records |->
                   Pair(Records[i].items[1], Records[i].items[2])]]

\* the metadata list as it was when the construction call was made
ConstructionList ==
    IF call.fn = "Auth" THEN RecordsAsPairs
    ELSE IF args.metadata = None THEN [tag |-> "list", items |-> <<>>]
    ELSE args.metadata

CertGiven == args.ssl_cert # None
\* the certificate path names a file (its home-directory part resolves)
CertResolves == CertGiven /\ ~IsExc(ExpandUser(args.ssl_cert))
CertFile == ExpandUser(args.ssl_cert).path
\* the file is missing or unreadable: opening it is an I/O error
CertUnreadable == CertResolves /\ files[CertFile] = Missing
\* nothing about the certificate stops construction
CertUsable == ~CertGiven \/ (CertResolves /\ files[CertFile] # Missing)

Count(step) == Cardinality({ i \in DOMAIN log : log[i] = step })
Did(step) == Count(step) > 0
ChannelSteps ==
    {"open", "read", "ssl_channel_credentials", "metadata_call_credentials",
     "composite_channel_credentials", "secure_channel", "insecure_channel",
     "store_channel"}
\* records that passed the arity check before step i of the log
PassedBefore(i) == Cardinality({ j \in 1..(i - 1) : log[j] = "arity_ok" })
\* every occurrence of step a comes before every occurrence of step b
Precedes(a, b) ==
    \A i, j \in DOMAIN log : (log[i] = a /\ log[j] = b) => i < j

\* the step is the return of the construction call
ConstructionStep == pc = "start" /\ pc' # "start"
\* the step is a request
RequestStep == nCalls' = nCalls + 1

\* the pairs a request carries: those attached, none if nothing was attached
Carried(att) == IF att = None THEN <<>> ELSE att.metadata.items

\* ------------------------------------------------------------------- C1
\* C1 as stated: whenever Auth is given records that all have two fields
\* (or no list), construction succeeds and get_auth_metadata returns the
\* records as pairs, same order, same length.
C1_AsStated ==
    [][(ConstructionStep /\ ByAuth' /\ AllPairs')
        => /\ exc' = None
           /\ result' # None
           /\ heap'[GetAuthMetadataValue(self').ref] = RecordsAsPairs']_vars

\* C1 amended: the same, for constructions in which the certificate file,
\* if a path is given, can be located and read.
C1_ValidRecordsStored ==
    [][(ConstructionStep /\ ByAuth' /\ AllPairs' /\ CertUsable')
        => /\ exc' = None
           /\ result' # None
           /\ heap'[GetAuthMetadataValue(self').ref] = RecordsAsPairs']_vars

C1_Witness ==
    /\ ByAuth /\ Constructed /\ CertGiven /\ nOps = 0
    /\ Len(Records) = 2 /\ Records[1] # Records[2]
    /\ got = self.metadata
    /\ heap[got.ref] = RecordsAsPairs

\* ------------------------------------------------------------------- C2
\* C2 as stated: whenever Auth is given a record whose length is not 2,
\* construction fails with the error stating the length of the first such
\* record, whatever the other parameters are.
C2_AsStated ==
    (ByAuth /\ ~AllPairs)
        => /\ pc = "raised"
           /\ exc = [type |-> "ValueError",
                     len |-> Len(Records[FirstBad].items)]

\* C2 amended: the same, whatever the other parameters are as long as the
\* home directory of the certificate path, resolved before the records are
\* looked at, can be determined.
C2_BadRecordRejected ==
    (ByAuth /\ ~AllPairs /\ (CertGiven => CertResolves))
        => /\ pc = "raised"
           /\ exc = [type |-> "ValueError",
                     len |-> Len(Records[FirstBad].items)]

C2_Witness ==
    /\ ByAuth /\ pc = "raised" /\ CertUnreadable /\ ~AllPairs
    /\ Len(Records) = 2 /\ FirstBad = 2 /\ Len(Records[2].items) = 3
    /\ exc = [type |-> "ValueError", len |-> 3]

\* ------------------------------------------------------------------- C3
\* C3: a constructed connection is insecure, with no credentials, exactly
\* when no certificate path is given and use-SSL is false; in every other
\* combination it is secure.
C3_InsecureIffNoCertNoSsl ==
    Constructed
        => /\ (channel.kind = "insecure") <=> (~CertGiven /\ ~args.use_ssl)
           /\ (channel.kind = "insecure") => channel.creds = None
           /\ (CertGiven \/ args.use_ssl)
                 => (channel.kind = "secure" /\ channel.creds # None)

C3_Witness ==
    /\ Constructed /\ CertGiven /\ ~args.use_ssl
    /\ channel.kind = "secure"

\* ------------------------------------------------------------------- C4
\* C4: on a secure connection the root certificate material is the bytes of
\* the file when a path is given, whatever use-SSL is, and the platform
\* default (None) with no file opened when no path is given.
C4_RootCertificatesFromPath ==
    (Constructed /\ channel.kind = "secure")
        => IF CertGiven
           THEN /\ channel.creds.root_certificates = files[CertFile]
                /\ files[CertFile] \in Contents
                /\ Count("read") = 1
           ELSE /\ channel.creds.root_certificates = None
                /\ ~Did("open") /\ ~Did("read")

C4_Witness ==
    /\ Constructed /\ channel.kind = "secure" /\ ~args.use_ssl
    /\ args.ssl_cert = [path |-> <<"~", "cert.pem">>]
    /\ channel.creds.root_certificates = [bytes |-> <<2, 3>>]

\* ------------------------------------------------------------------- C5
\* C5 as stated: every request over a constructed connection, secure or
\* insecure, carries the metadata pairs supplied at construction.
C5_AsStated ==
    [][(Constructed /\ RequestStep)
        => Carried(sent') = ConstructionList.items]_vars

\* C5 amended: a request over a secure connection built with a non-empty
\* metadata list carries what that list holds when the request is made; a
\* request over any other connection has nothing attached.
C5_SecureRequestsCarryList ==
    [][(Constructed /\ RequestStep)
        => IF channel.kind = "secure" /\ ConstructionList.items # <<>>
           THEN sent' = [metadata |-> heap[MetaRef.ref], error |-> None]
           ELSE sent' = None]_vars

C5_Witness ==
    /\ Constructed /\ nCalls > 0 /\ nOps = 0
    /\ channel.kind = "secure"
    /\ sent # None
    /\ Len(sent.metadata.items) = 2
    /\ sent.metadata = ConstructionList

\* ------------------------------------------------------------------- C6
\* C6: on a secure connection call credentials are composed iff the metadata
\* list is non-empty, and then every call's callback delivers exactly the
\* construction-time pair list, in order, with no error.
C6_CallbackDeliversConstructionList ==
    [][(Constructed /\ channel.kind = "secure")
        => /\ (channel.creds.call # None) <=> (ConstructionList.items # <<>>)
           /\ (RequestStep /\ channel.creds.call # None)
                 => sent' = [metadata |-> ConstructionList,
                             error |-> None]]_vars

\* ------------------------------------------------------------------- C7
SixtyFourMiB == 67108864

\* the max message length the call configured
Configured ==
    IF "max_message_length" \in DOMAIN call.kw
    THEN call.kw["max_message_length"] ELSE SixtyFourMiB

\* C7: every constructed connection has both message-size options, each
\* equal to the configured max message length, 67,108,864 when unspecified.
C7_SymmetricMessageLimits ==
    Constructed
        => /\ \E i \in DOMAIN channel.options :
                 channel.options[i] =
                     <<"grpc.max_receive_message_length", Configured>>
           /\ \E i \in DOMAIN channel.options :
                 channel.options[i] =
                     <<"grpc.max_send_message_length", Configured>>
           /\ Len(channel.options) = 2

C7_Witness ==
    /\ Constructed /\ channel.kind = "secure"
    /\ "max_message_length" \in DOMAIN call.kw
    /\ channel.options[2] = <<"grpc.max_send_message_length", 1024>>

\* ------------------------------------------------------------------- C8
\* no fallback, no retry, nothing built, nothing returned
NothingBuilt ==
    /\ pc = "raised"
    /\ channel = None
    /\ result = None
    /\ self.channel = Unset
    /\ Count("open") <= 1
    /\ \A st \in ChannelSteps \ {"open"} : ~Did(st)

\* C8 as stated: when the certificate file is missing or unreadable,
\* construction fails with the I/O error and nothing is built or returned.
C8_AsStated ==
    (Returned /\ CertUnreadable)
        => /\ NothingBuilt
           /\ exc = [type |-> "FileNotFoundError"]

\* C8 amended: when the certificate file is missing or unreadable,
\* construction fails and nothing is built or returned; the error is the
\* I/O error, except that Auth given a record whose length is not 2 fails
\* with the metadata error and never opens the file.
C8_UnreadableCertFails ==
    (Returned /\ CertUnreadable)
        => /\ NothingBuilt
           /\ IF call.fn = "Auth" /\ ~AllPairs
              THEN exc.type = "ValueError" /\ ~Did("open")
              ELSE exc = [type |-> "FileNotFoundError"] /\ Count("open") = 1

C8_Witness ==
    /\ ByAuth /\ CertUnreadable /\ AllPairs /\ Len(Records) = 2
    /\ "use_ssl" \in DOMAIN call.kw
    /\ exc = [type |-> "FileNotFoundError"]
    /\ result = None

\* ------------------------------------------------------------------- C9
\* C9: Auth validates every record, then reads the certificate, then builds
\* credentials, then the channel, then stores it; with an invalid record
\* the file is never read and no channel is created, and with an invalid
\* record and an unreadable certificate the error is the metadata error.
C9_ValidateBeforeChannel ==
    ByAuth
        => /\ \A i \in DOMAIN log :
                 log[i] \in ChannelSteps => PassedBefore(i) = Len(Records)
           /\ Precedes("open", "read")
           /\ Precedes("read", "ssl_channel_credentials")
           /\ Precedes("ssl_channel_credentials", "metadata_call_credentials")
           /\ Precedes("metadata_call_credentials",
                       "composite_channel_credentials")
           /\ Precedes("ssl_channel_credentials", "secure_channel")
           /\ Precedes("composite_channel_credentials", "secure_channel")
           /\ Precedes("secure_channel", "store_channel")
           /\ Precedes("insecure_channel", "store_channel")
           /\ Constructed => log[Len(log)] = "store_channel"
           /\ ~AllPairs
                 => /\ \A st \in ChannelSteps : ~Did(st)
                    /\ channel = None
           /\ (~AllPairs /\ CertUnreadable)
                 => exc = [type |-> "ValueError",
                           len |-> Len(Records[FirstBad].items)]

C9_Witness ==
    /\ ByAuth /\ ~AllPairs /\ CertUnreadable
    /\ FirstBad = 2
    /\ log = <<"expanduser", "arity_ok", "arity_fail">>
    /\ exc.type = "ValueError"

C9_WitnessBuilt ==
    /\ ByAuth /\ Constructed /\ Len(Records) = 2
    /\ log = <<"expanduser", "arity_ok", "arity_ok", "expanduser", "open",
               "read", "ssl_channel_credentials", "metadata_call_credentials",
               "composite_channel_credentials", "secure_channel",
               "store_channel">>

\* ------------------------------------------------------------------ C10
\* C10: once an Auth object is constructed, whatever get_auth_metadata
\* calls and caller operations on the returned values follow, its
\* attributes and metadata list keep their construction-time values, every
\* get_auth_metadata call returns that pair list, and the channel's calls
\* keep injecting it.
C10_ReadOnlyAfterConstruction ==
    (ByAuth /\ Constructed)
        => /\ self.uri = args.uri
           /\ self.use_ssl = args.use_ssl
           /\ self.ssl_cert = (IF CertGiven THEN ExpandUser(args.ssl_cert)
                               ELSE None)
           /\ self.channel = channel
           /\ heap[self.metadata.ref] = RecordsAsPairs
           /\ got # None => heap[got.ref] = RecordsAsPairs
           /\ channel.creds # None /\ channel.creds.call # None
                 => MetadataCallback(channel.creds.call.callback, heap)
                       = [metadata |-> RecordsAsPairs, error |-> None]

====
